---- MODULE Spec2Model ----
(***************************************************************************)
(* The example data generators of deck.gl-layers as one state machine.     *)
(* A run picks one script and its input, then executes the script's        *)
(* statements in program order.  Arrays that the scripts index from 0 are  *)
(* functions over 0..n-1 (offsets) or sequences whose element k+1 is row k *)
(* (data, coords, timestamps, vendor).  Numbers are integers; the float32  *)
(* and uint8 stores of the trips script are modelled by what they keep.    *)
(***************************************************************************)
EXTENDS Integers, Sequences, FiniteSets, TLC

VARIABLES script, pc, present, data, tiles, i, coord_num, offsets, allocated,
          vendor, coords, timestamps, table, files, err

vars == <<script, pc, present, data, tiles, i, coord_num, offsets, allocated,
          vendor, coords, timestamps, table, files, err>>

\* ---------------------------------------------------------------- bounds

\* The most trips (and the most rows of the tiles file) of an input.
MaxTrips == 2
\* The longest path and the longest timestamps list of a trip.
MaxPathLen == 2

\* ------------------------------------------------------- numeric storage

\* float32 has a 24 bit significand: every integer up to 2^24 is kept.
F32Exact == 16777216

\* The value a float32 store keeps of a non-negative integer v < 2^25:
\* exact up to 2^24; above, the representable neighbours are the even
\* integers and a tie goes to the one with an even significand.
ToFloat32(v) ==
    IF v <= F32Exact THEN v
    ELSE IF v % 2 = 0 THEN v
    ELSE IF (v + 1) % 4 = 0 THEN v + 1
    ELSE v - 1

\* Number of values of an unsigned 8 bit integer.
UInt8Range == 256

InUInt8(v) == v >= 0 /\ v < UInt8Range

\* What an unsigned 8 bit store keeps of v when the store wraps.
ToUInt8(v) == v % UInt8Range

\* Largest value of a signed 32 bit integer (the dtype of offsets).
Int32Max == 2147483647

\* ------------------------------------------------------------ the inputs

\* First coordinate / timestamp values the inputs are built from: a small
\* one, and one whose successor no float32 represents.
Starts == {0, F32Exact}

\* Vendor ids of the inputs: one that fits 8 bits and one that does not.
Vendors == {1, 256}

\* A path of n coordinates [x, y] running diagonally from (s, s).
PathFrom(s, n) == [k \in 1..n |-> <<s + k - 1, s + k - 1>>]

\* A timestamps list of n values counting up from s.
StampsFrom(s, n) == [k \in 1..n |-> s + k - 1]

\* The trips a JSON input may hold; path and timestamps lengths are free.
Trips ==
    { [path |-> PathFrom(s, n), timestamps |-> StampsFrom(s, m), vendor |-> v] :
        s \in Starts, n \in 0..MaxPathLen, m \in 0..MaxPathLen, v \in Vendors }

\* The two linestrings of the end-to-end scenario.
ExampleData ==
    << [path |-> <<<<0, 0>>, <<1, 1>>>>, timestamps |-> <<0, 1>>, vendor |-> 0],
       [path |-> <<<<2, 2>>, <<3, 3>>, <<4, 4>>>>, timestamps |-> <<2, 3, 4>>,
        vendor |-> 1] >>

SeqsUpTo(S, n) == UNION { [1..k -> S] : k \in 0..n }

TripInputs == SeqsUpTo(Trips, MaxTrips) \cup {ExampleData}

\* A row of the tiles file: its "tile" cell is null, or the WKT of a polygon
\* (given here by the centroid shapely computes of it).
TileRows ==
    { [missing |-> TRUE, centroid |-> <<0, 0>>],
      [missing |-> FALSE, centroid |-> <<1, 2>>],
      [missing |-> FALSE, centroid |-> <<3, 4>>] }

TileInputs == SeqsUpTo(TileRows, MaxTrips)

\* The geometries of a file read through geopandas, by their family.
GeomInputs(family) == SeqsUpTo({family}, MaxTrips)

\* geopandas' bundled "nybb" dataset: the five boroughs of New York.
NybbData == [k \in 1..5 |-> "multipolygon"]

\* geopandas' bundled "naturalearth_cities" dataset (its size is immaterial).
CitiesData == [k \in 1..3 |-> "point"]

Scripts == {"trips", "point", "polygon", "multipolygon", "text", "multipoint"}

\* The scripts whose input is a file the user has to put beside the script.
LocalInput ==
    [s \in {"point", "polygon", "multipolygon"} |->
        CASE s = "point" -> "2019-01-01_performance_mobile_tiles.parquet"
          [] s = "polygon" -> "Utah.geojson.zip"
          [] s = "multipolygon" -> "ne_10m_admin_0_countries.zip"]

\* The URLs the sources name (trips line 6, text line 9, point line 26).
Urls ==
    { "https://raw.githubusercontent.com/visgl/deck.gl-data/master/examples/trips/trips-v7.json",
      "https://raw.githubusercontent.com/visgl/deck.gl-data/master/examples/text-layer/cities-1000.csv",
      "https://ookla-open-data.s3.us-west-2.amazonaws.com/parquet/performance/type=mobile/year=2019/quarter=1/2019-01-01_performance_mobile_tiles.parquet" }

\* -------------------------------------------------------------- helpers

\* No exception raised yet.  msg is what the exception's message names.
NoErr == [line |-> 0, exc |-> "none", msg |-> "none"]

Raised(line, exc, msg) == [line |-> line, exc |-> exc, msg |-> msg]

\* No table built yet.
NoTable == [geometry |-> <<>>, timestamps |-> <<>>, vendor |-> <<>>,
            num_rows |-> 0, tag |-> "none", meta |-> "none"]

geoms_num == Len(data)

\* The assertion of line 15 as a run without assertions evaluates it.
CountAssertStripped(item) == TRUE

\* len(item["path"]) == len(item["timestamps"]), the assertion of line 15.
CountAssert(item) == Len(item.path) = Len(item.timestamps)

\* coord_num = len(item["path"]): the count is replaced, not added to.
CountAddAssign(n, item) == Len(item.path)

\* coord_num += len(item["path"]) + 1
CountAddOffByOne(n, item) == n + Len(item.path) + 1

\* coord_num += len(item["path"])
CountAdd(n, item) == n + Len(item.path)

\* end_offset - start_offset == path.shape[0], the assertion of line 27.
FlattenAssert(start_offset, end_offset, path) ==
    end_offset - start_offset = Len(path)

\* buf[start:end] = vals for a sequence buf (row k is element k + 1) and a
\* list vals of end - start values.
SliceAssign(buf, start, end, vals) ==
    [k \in 1..Len(buf) |->
        IF k > start /\ k <= end THEN vals[k - start] ELSE buf[k]]

\* The float32 rows kept of a list of coordinates.
CoordsToFloat32(path) ==
    [k \in 1..Len(path) |-> <<ToFloat32(path[k][1]), ToFloat32(path[k][2])>>]

\* The float32 values kept of a list of numbers.
ListToFloat32(vals) == [k \in 1..Len(vals) |-> ToFloat32(vals[k])]

\* numpy's rule for timestamps[start:end] = vals: a list as long as the
\* slice is copied, a list of one value is broadcast, any other raises.
StampsFit(start_offset, end_offset, vals) ==
    Len(vals) = end_offset - start_offset \/ Len(vals) = 1

StampsForSlice(start_offset, end_offset, vals) ==
    IF Len(vals) = end_offset - start_offset THEN ListToFloat32(vals)
    ELSE [k \in 1..(end_offset - start_offset) |-> ToFloat32(vals[1])]

\* coords.flatten("C"): row after row, x before y.
FlattenC(rows) ==
    [k \in 1..(2 * Len(rows)) |-> rows[(k + 1) \div 2][IF k % 2 = 1 THEN 1 ELSE 2]]

\* A fixed-size list that puts every value in a row of its own.
FixedSizeListUngrouped(values, size) == [r \in 1..Len(values) |-> <<values[r]>>]

\* pa.FixedSizeListArray.from_arrays(values, size): row r (from 0) holds
\* values[size*r .. size*r + size - 1].
FixedSizeList(values, size) ==
    [r \in 1..(Len(values) \div size) |->
        [c \in 1..size |-> values[size * (r - 1) + c]]]

\* pa.ListArray.from_arrays(offsets, values): len(offsets) - 1 rows, row r
\* (from 0) holds values[offsets[r] .. offsets[r+1] - 1].
ListArray(offs, values) ==
    [r \in 1..(Cardinality(DOMAIN offs) - 1) |->
        [k \in 1..(offs[r] - offs[r - 1]) |-> values[offs[r - 1] + k]]]

\* ------------------------------------------------------------------ Init

Init ==
    /\ script \in Scripts
    /\ present \in (IF script \in DOMAIN LocalInput THEN BOOLEAN ELSE {TRUE})
    /\ data \in (CASE script = "trips" -> TripInputs
                   [] script = "polygon" -> GeomInputs("polygon")
                   [] script = "multipolygon" -> GeomInputs("multipolygon")
                   [] script = "text" -> GeomInputs("point")
                   [] script = "multipoint" -> {CitiesData}
                   [] OTHER -> {<<>>})
    /\ tiles \in (IF script = "point" THEN TileInputs ELSE {<<>>})
    /\ pc = "start"
    /\ i = 0
    /\ coord_num = 0
    /\ offsets = [k \in 0..0 |-> 0]
    /\ allocated = FALSE
    /\ vendor = <<>>
    /\ coords = <<>>
    /\ timestamps = <<>>
    /\ table = NoTable
    /\ files = <<>>
    /\ err = NoErr

\* ----------------------------------------------------------------- trips

\* Lines 7-12: fetch and parse the JSON, zero the counters and offsets.
TripsFetch ==
    /\ script = "trips" /\ pc = "start"
    /\ coord_num' = 0
    /\ offsets' = [k \in 0..geoms_num |-> 0]
    /\ i' = 0
    /\ pc' = "count"
    /\ UNCHANGED <<script, present, data, tiles, allocated, vendor, coords,
                   timestamps, table, files, err>>

\* Lines 14-17, one iteration of the counting loop.
TripsCount ==
    /\ script = "trips" /\ pc = "count" /\ i < geoms_num
    /\ LET item == data[i + 1] IN
       IF ~CountAssert(item)
       THEN /\ pc' = "error"
            /\ err' = Raised(15, "AssertionError", "none")
            /\ UNCHANGED <<coord_num, offsets, i>>
       ELSE IF CountAdd(coord_num, item) > Int32Max
       THEN /\ pc' = "error"
            /\ err' = Raised(17, "OverflowError", "none")
            /\ coord_num' = CountAdd(coord_num, item)
            /\ UNCHANGED <<offsets, i>>
       ELSE /\ coord_num' = CountAdd(coord_num, item)
            /\ offsets' = [offsets EXCEPT ![i + 1] = CountAdd(coord_num, item)]
            /\ i' = i + 1
            /\ UNCHANGED <<pc, err>>
    /\ UNCHANGED <<script, present, data, tiles, allocated, vendor, coords,
                   timestamps, table, files>>

\* Lines 19-21: the counting loop is over; allocate the zeroed buffers.
TripsAlloc ==
    /\ script = "trips" /\ pc = "count" /\ i = geoms_num
    /\ vendor' = [k \in 1..geoms_num |-> 0]
    /\ coords' = [k \in 1..coord_num |-> <<0, 0>>]
    /\ timestamps' = [k \in 1..coord_num |-> 0]
    /\ allocated' = TRUE
    /\ i' = 0
    /\ pc' = "flatten"
    /\ UNCHANGED <<script, present, data, tiles, coord_num, offsets, table,
                   files, err>>

\* What line 30, vendor[i] = item["vendor"], may do: a value in range is
\* stored; one out of range wraps (NumPy 1) or raises (NumPy 2).
VendorStore(v) ==
    IF InUInt8(v) THEN {[ok |-> TRUE, val |-> v]}
    ELSE {[ok |-> TRUE, val |-> ToUInt8(v)], [ok |-> FALSE, val |-> 0]}

\* Lines 23-30, one iteration of the flattening loop.
TripsFlatten ==
    /\ script = "trips" /\ pc = "flatten" /\ i < geoms_num
    /\ LET item == data[i + 1]
           start_offset == offsets[i]
           end_offset == offsets[i + 1]
           path == item.path
       IN
       IF ~FlattenAssert(start_offset, end_offset, path)
       THEN /\ pc' = "error"
            /\ err' = Raised(27, "AssertionError", "none")
            /\ UNCHANGED <<coords, timestamps, vendor, i>>
       ELSE IF Len(path) = 0
       \* np.array([]) has shape (0,), which does not broadcast to (0, 2)
       THEN /\ pc' = "error"
            /\ err' = Raised(28, "ValueError", "none")
            /\ UNCHANGED <<coords, timestamps, vendor, i>>
       ELSE IF ~StampsFit(start_offset, end_offset, item.timestamps)
       THEN /\ pc' = "error"
            /\ err' = Raised(29, "ValueError", "none")
            /\ coords' = SliceAssign(coords, start_offset, end_offset,
                                     CoordsToFloat32(path))
            /\ UNCHANGED <<timestamps, vendor, i>>
       ELSE /\ coords' = SliceAssign(coords, start_offset, end_offset,
                                     CoordsToFloat32(path))
            /\ timestamps' = SliceAssign(timestamps, start_offset, end_offset,
                   StampsForSlice(start_offset, end_offset, item.timestamps))
            /\ \E st \in VendorStore(item.vendor) :
                 IF st.ok
                 THEN /\ vendor' = [vendor EXCEPT ![i + 1] = st.val]
                      /\ i' = i + 1
                      /\ UNCHANGED <<pc, err>>
                 ELSE /\ pc' = "error"
                      /\ err' = Raised(30, "OverflowError", "none")
                      /\ UNCHANGED <<vendor, i>>
    /\ UNCHANGED <<script, present, data, tiles, coord_num, offsets, allocated,
                   table, files>>

\* pa.table({"geometry": ..., "timestamps": ..., "vendor": ...}): plain
\* list columns; no field carries an extension name or metadata.
PaTable(geometry, stamps, vend) ==
    [geometry |-> geometry, timestamps |-> stamps, vendor |-> vend,
     num_rows |-> Len(geometry), tag |-> "none", meta |-> "none"]

\* Lines 32-40: the flattening loop is over; build the three columns.
TripsTable ==
    /\ script = "trips" /\ pc = "flatten" /\ i = geoms_num
    /\ LET coords_fixed_size_list == FixedSizeList(FlattenC(coords), 2)
           linestrings_arr == ListArray(offsets, coords_fixed_size_list)
           timestamp_arr == ListArray(offsets, timestamps)
       IN table' = PaTable(linestrings_arr, timestamp_arr, vendor)
    /\ pc' = "write"
    /\ UNCHANGED <<script, present, data, tiles, i, coord_num, offsets,
                   allocated, vendor, coords, timestamps, files, err>>

\* A write that replaces what was written before.
WriteFeatherOverwrite(fs, tbl, name) == <<[name |-> name, table |-> tbl]>>

\* feather.write_feather(table, name, compression="uncompressed")
WriteFeather(fs, tbl, name) == Append(fs, [name |-> name, table |-> tbl])

\* Line 42.
\* ------------------------------------------- the scripts using an encoder

\* What opening a missing local file raises: pandas and pyogrio name the
\* path they were given.
MissingFile(line, exc) == Raised(line, exc, LocalInput[script])

\* geopandas_to_geoarrow(gdf) / Layer.from_geopandas(gdf).table of the
\* lonboard and geoarrow libraries: one geometry row per row of gdf, the
\* geometry field named after the family of the geometries.
GeopandasToGeoarrow(gdf, family) ==
    [geometry |-> gdf, timestamps |-> <<>>, vendor |-> <<>>,
     num_rows |-> Len(gdf), tag |-> "geoarrow." \o family, meta |-> ""]

\* table.append_column(name, column) of pyarrow: the column has to be as
\* long as the table.
CanAppend(tbl, column) == Len(column) = tbl.num_rows

Halt(e) ==
    /\ pc' = "error"
    /\ err' = e
    /\ UNCHANGED <<script, present, data, tiles, i, coord_num, offsets,
                   allocated, vendor, coords, timestamps, table, files>>

Built(tbl, next) ==
    /\ table' = tbl
    /\ pc' = next
    /\ UNCHANGED <<script, present, data, tiles, i, coord_num, offsets,
                   allocated, vendor, coords, timestamps, files, err>>

Written(name, next) ==
    /\ files' = WriteFeather(files, table, name)
    /\ pc' = next
    /\ UNCHANGED <<script, present, data, tiles, i, coord_num, offsets,
                   allocated, vendor, coords, timestamps, table, err>>

\* trips, line 42.
TripsWrite ==
    /\ script = "trips" /\ pc = "write"
    /\ Written("trips.feather", "done")

\* polygon, lines 7-8.
PolygonUtah ==
    /\ script = "polygon" /\ pc = "start"
    /\ IF ~present THEN Halt(MissingFile(7, "DataSourceError"))
       ELSE Built(GeopandasToGeoarrow(data, "polygon"), "write_utah")

\* polygon, line 9.
PolygonWriteUtah ==
    /\ script = "polygon" /\ pc = "write_utah"
    /\ Written("utah.feather", "nybb")

\* polygon, lines 11-12.
PolygonNybb ==
    /\ script = "polygon" /\ pc = "nybb"
    /\ Built(GeopandasToGeoarrow(NybbData, "multipolygon"), "write")

\* polygon, line 13.
PolygonWriteNybb ==
    /\ script = "polygon" /\ pc = "write"
    /\ Written("nybb.feather", "done")

\* multipolygon, lines 12-35.  The colour ramp needs the least and the
\* greatest population, which an empty table does not have.
MultipolygonTable ==
    /\ script = "multipolygon" /\ pc = "start"
    /\ IF ~present THEN Halt(MissingFile(12, "DataSourceError"))
       ELSE IF Len(data) = 0 THEN Halt(Raised(27, "ValueError", "none"))
       ELSE Built(GeopandasToGeoarrow(data, "multipolygon"), "write")

\* multipolygon, lines 37-39.
MultipolygonWrite ==
    /\ script = "multipolygon" /\ pc = "write"
    /\ Written("ne_10m_admin_0_countries.feather", "done")

\* text, lines 9-13.
TextTable ==
    /\ script = "text" /\ pc = "start"
    /\ Built(GeopandasToGeoarrow(data, "point"), "write")

\* text, line 15.
TextWrite ==
    /\ script = "text" /\ pc = "write"
    /\ Written("text.arrow", "done")

\* shapely.multipoints(gdf.geometry) in a one-row frame: every point of the
\* input goes into the single multipoint of gdf2.
MultipointFrame(gdf) == <<"multipoint">>

\* The top-level script, lines 8-14; colors holds one row of three values.
MultipointTable ==
    /\ script = "multipoint" /\ pc = "start"
    /\ LET gdf2 == MultipointFrame(data)
           tbl == GeopandasToGeoarrow(gdf2, "multipoint")
           colors == FixedSizeList(<<255, 0, 0>>, 3)
       IN IF ~CanAppend(tbl, colors)
          THEN Halt(Raised(14, "ArrowInvalid", "none"))
          ELSE Built(tbl, "write")

\* The top-level script, line 15.
MultipointWrite ==
    /\ script = "multipoint" /\ pc = "write"
    /\ Written("naturalearth_cities_multipoint.feather", "done")

\* ----------------------------------------------------------------- point

\* PointGeometryType: _extension_name and __arrow_ext_serialize__.
PointGeometryType == [name |-> "geoarrow.point", serialized |-> ""]

\* PointGeometryType.__arrow_ext_deserialize__(storage_type, serialized)
ArrowExtDeserialize(storage_type, serialized) == PointGeometryType

\* shapely.get_coordinates(shapely.centroid(shapely.from_wkt(df["tile"]))):
\* the centroids' coordinates, one after the other.  A null cell stays None
\* through from_wkt and centroid, and None has no coordinates.
RECURSIVE GetCoordinates(_)
GetCoordinates(rows) ==
    IF rows = <<>> THEN <<>>
    ELSE LET rest == GetCoordinates(Tail(rows))
         IN IF Head(rows).missing THEN rest
            ELSE <<Head(rows).centroid>> \o rest

\* coords.flatten() and, line 40, the fixed-size list built of it.
parr == FixedSizeList(FlattenC(coords), 2)

\* pa.ExtensionArray.from_storage(type, storage) appended as "geometry".
AppendGeometry(tbl, type, storage) ==
    [tbl EXCEPT !.geometry = storage, !.tag = type.name,
                !.meta = type.serialized]

\* point, lines 30-39.
PointRead ==
    /\ script = "point" /\ pc = "start"
    /\ IF ~present
       THEN Halt(MissingFile(30, "FileNotFoundError"))
       ELSE /\ table' = [NoTable EXCEPT !.num_rows = Len(tiles)]
            /\ coords' = GetCoordinates(tiles)
            /\ pc' = "append"
            /\ UNCHANGED <<script, present, data, tiles, i, coord_num, offsets,
                           allocated, vendor, timestamps, files, err>>

\* point, lines 40-42.
PointAppend ==
    /\ script = "point" /\ pc = "append"
    /\ IF ~CanAppend(table, parr)
       THEN Halt(Raised(42, "ArrowInvalid", "none"))
       ELSE Built(AppendGeometry(table, PointGeometryType, parr), "write")

\* point, lines 43-45.
PointWrite ==
    /\ script = "point" /\ pc = "write"
    /\ Written("2019-01-01_performance_mobile_tiles.feather", "done")

Next ==
    \/ TripsFetch
    \/ TripsCount
    \/ TripsAlloc
    \/ TripsFlatten
    \/ TripsTable
    \/ TripsWrite
    \/ PolygonUtah
    \/ PolygonWriteUtah
    \/ PolygonNybb
    \/ PolygonWriteNybb
    \/ MultipolygonTable
    \/ MultipolygonWrite
    \/ TextTable
    \/ TextWrite
    \/ MultipointTable
    \/ MultipointWrite
    \/ PointRead
    \/ PointAppend
    \/ PointWrite

Spec == Init /\ [][Next]_vars

\* ------------------------------------------------------------ properties

IsTrips == script = "trips"

\* The counting loop has run for the trips 0 .. Counted - 1.
Counted ==
    IF pc = "start" THEN 0
    ELSE IF pc = "count" \/ (pc = "error" /\ err.line \in {15, 17}) THEN i
    ELSE geoms_num

\* C2: once offsets exists it has one entry more than there are trips and
\* starts at 0, and after every iteration of the counting loop the entries
\* written so far never decrease, whatever the input.
C2_OffsetsMonotone ==
    (IsTrips /\ pc # "start") =>
        /\ DOMAIN offsets = 0..geoms_num
        /\ offsets[0] = 0
        /\ \A k \in 0..(Counted - 1) : offsets[k] <= offsets[k + 1]

\* C2's case: two trips counted, the second one with a non-empty path.
C2_Witness ==
    /\ IsTrips /\ pc = "count" /\ geoms_num = 2 /\ i = 2
    /\ offsets[1] < offsets[2]

\* The slices [offsets[k], offsets[k+1]) that hold buffer row r.
SlicesOf(r) == {k \in 0..(geoms_num - 1) : offsets[k] <= r /\ r < offsets[k + 1]}

\* C9: after the counting pass consecutive offsets differ by the length of
\* the trip's path and the last offset is the number of buffer rows; the
\* assertion of the flattening loop never fails; every buffer row lies in
\* exactly one of the slices the flattening loop writes.
C9_OffsetsMatchPaths ==
    IsTrips =>
        /\ ~(pc = "error" /\ err.line = 27)
        /\ (pc # "start" /\ Counted = geoms_num) =>
              /\ \A k \in 0..(geoms_num - 1) :
                    offsets[k + 1] - offsets[k] = Len(data[k + 1].path)
              /\ offsets[geoms_num] = coord_num
              /\ \A r \in 0..(coord_num - 1) : Cardinality(SlicesOf(r)) = 1
        /\ allocated =>
              /\ Len(coords) = offsets[geoms_num]
              /\ Len(timestamps) = offsets[geoms_num]

\* C9's case: a run that flattened two trips into three or more rows.
C9_Witness ==
    IsTrips /\ pc = "done" /\ geoms_num = 2 /\ coord_num >= 3

\* The trips whose path and timestamps differ in length, counted from 0.
Mismatched == {k \in 0..(geoms_num - 1) : ~(Len(data[k + 1].path) = Len(data[k + 1].timestamps))}

FirstMismatch == CHOOSE k \in Mismatched : \A j \in Mismatched : k <= j

\* C10: trips.feather is written only once both loops have run over every
\* trip.  With a trip whose path and timestamps differ in length the run
\* gets no further than the counting loop's assertion for the first such
\* trip: no buffer is allocated and no file is ever written.
C10_NoPartialOutput ==
    IsTrips =>
        /\ files # <<>> => (pc = "done" /\ i = geoms_num /\ Mismatched = {})
        /\ Mismatched # {} =>
              /\ files = <<>>
              /\ ~allocated
              /\ pc \in {"start", "count", "error"}
              /\ pc = "count" => i <= FirstMismatch
              /\ pc = "error" => (err.line = 15 /\ i = FirstMismatch)

\* C10's case: the first trip passed the assertion, the second one failed it.
C10_Witness ==
    /\ IsTrips /\ pc = "error" /\ err.line = 15
    /\ geoms_num = 2 /\ i = 1 /\ offsets[1] > 0

\* The geometries behind the geometry column of an output file.
InputGeometries(name) ==
    CASE name = "nybb.feather" -> NybbData
      [] name = "naturalearth_cities_multipoint.feather" -> MultipointFrame(data)
      [] name = "2019-01-01_performance_mobile_tiles.feather" -> tiles
      [] OTHER -> data

Present(rows) == {k \in 1..Len(rows) : ~rows[k].missing}

PointCoordsBuilt == script = "point" /\ present /\ pc # "start"

NumOutputs(s) == IF s = "polygon" THEN 2 ELSE 1

DecodedPath(tbl, k) == [r \in 1..Len(tbl.geometry[k]) |->
                          <<tbl.geometry[k][r][1], tbl.geometry[k][r][2]>>]

\* C1: in the file a run of the trips script wrote, row i of the geometry
\* column is the path of trip i and row i of the timestamps column is its
\* timestamps, value for value.
C1_RoundTrip ==
    (IsTrips /\ pc = "done") =>
        \A k \in 1..geoms_num :
            /\ DecodedPath(files[1].table, k) = data[k].path
            /\ files[1].table.timestamps[k] = data[k].timestamps

RECURSIVE ConcatPaths(_)
ConcatPaths(trips) ==
    IF trips = <<>> THEN <<>>
    ELSE FlattenC(Head(trips).path) \o ConcatPaths(Tail(trips))

RECURSIVE CumulativeLengths(_, _)
CumulativeLengths(trips, from) ==
    IF trips = <<>> THEN <<>>
    ELSE <<from + Len(Head(trips).path)>>
            \o CumulativeLengths(Tail(trips), from + Len(Head(trips).path))

\* C4: after both loops the flat coordinate buffer is the x, y values of
\* all paths in trip order and offsets is 0 followed by the running sum of
\* the path lengths; the two linestrings of the scenario give offsets
\* 0, 2, 5 and the buffer 0,0,1,1,2,2,3,3,4,4.
C4_FlatLayout ==
    (IsTrips /\ pc \in {"write", "done"}) =>
        /\ FlattenC(coords) = ConcatPaths(data)
        /\ [k \in 1..(geoms_num + 1) |-> offsets[k - 1]]
              = <<0>> \o CumulativeLengths(data, 0)
        /\ data = ExampleData =>
              /\ [k \in 1..3 |-> offsets[k - 1]] = <<0, 2, 5>>
              /\ FlattenC(coords) = <<0, 0, 1, 1, 2, 2, 3, 3, 4, 4>>

\* C5: in the file a run of the trips script wrote, row i of the vendor
\* column is the vendor of trip i and row i of the timestamps column is the
\* timestamps of trip i.
C5_AttributesKept ==
    (IsTrips /\ pc = "done") =>
        /\ Len(files[1].table.vendor) = geoms_num
        /\ Len(files[1].table.timestamps) = geoms_num
        /\ \A k \in 1..geoms_num :
              /\ files[1].table.vendor[k] = data[k].vendor
              /\ files[1].table.timestamps[k] = data[k].timestamps

\* C6: the geometry column of every file written carries an extension
\* name; the point script's is "geoarrow.point" with empty metadata, which
\* deserializes to the same type.
C6_GeometryTagged ==
    \A f \in 1..Len(files) :
        /\ files[f].table.tag # "none"
        /\ script = "point" =>
              /\ files[f].table.tag = "geoarrow.point"
              /\ files[f].table.meta = ""
              /\ ArrowExtDeserialize("storage", files[f].table.meta)
                    = PointGeometryType

\* C8: a run that found its local input file missing has raised an error
\* whose message names a download URL, and has written no file.
C8_MissingInput ==
    ~present =>
        /\ files = <<>>
        /\ pc = "error" => err.msg \in Urls

====
